---------------------------- MODULE Spec2Model ----------------------------
(***************************************************************************)
(* A model of ai_file_classifier.py: the scorer (analyze_file and its four *)
(* signals), the directory aggregator (analyze_directory over os.walk) and *)
(* the report (generate_risk_report).                                      *)
(*                                                                         *)
(* Strings are sequences of one-character strings, so that lower-casing,   *)
(* substring search, the two regular expressions, Path.suffix and the size *)
(* formatting are computed as the code computes them.                      *)
(***************************************************************************)
EXTENDS Integers, Sequences, FiniteSets, TLC

VARIABLES
    pc,        \* the position of the operation being run
    arg,       \* the argument of the call in progress
    ret,       \* <<>> until the call returns, then <<value>>
    fs,        \* the file system below the root: its directories and files
    stack,     \* os.walk: the directories still to be listed
    pending,   \* analyze_directory: the files of the current directory still to score
    analyses,  \* analyze_directory: the local list `analyses`
    log,       \* what was handed to self.logger
    visited    \* history: every file handed to analyze_file, with how it ended

vars == <<pc, arg, ret, fs, stack, pending, analyses, log, visited>>

----------------------------------------------------------------------------
(* Characters and strings *)

UpperChars == <<"A","B","C","D","E","F","G","H","I","J","K","L","M","N","O","P","Q","R","S","T","U","V","W","X","Y","Z">> (* ABCDEFGHIJKLMNOPQRSTUVWXYZ *)
LowerChars == <<"a","b","c","d","e","f","g","h","i","j","k","l","m","n","o","p","q","r","s","t","u","v","w","x","y","z">> (* abcdefghijklmnopqrstuvwxyz *)
Digits == {"0", "1", "2", "3", "4", "5", "6", "7", "8", "9"}
DigitChars == <<"0","1","2","3","4","5","6","7","8","9">> (* 0123456789 *)

Min(a, b) == IF a < b THEN a ELSE b

\* the lower-case letter of each upper-case letter
UpperToLower ==
    [c \in { UpperChars[i] : i \in 1..26 } |->
        LowerChars[CHOOSE i \in 1..26 : UpperChars[i] = c]]

\* str.lower() on one character
lower_char(c) == IF c \in DOMAIN UpperToLower THEN UpperToLower[c] ELSE c

\* str.lower()
lower(s) == [i \in 1..Len(s) |-> lower_char(s[i])]

\* `sub in s` on strings
Contains(sub, s) ==
    \E i \in 0..(Len(s) - Len(sub)) : \A j \in 1..Len(sub) : s[i + j] = sub[j]

IsDigitAt(s, i) == i >= 1 /\ i <= Len(s) /\ s[i] \in Digits
IsSepAt(s, i) == i >= 1 /\ i <= Len(s) /\ s[i] \in {"-", "_"}

\* re.search(r'\d{4}[-_]\d{2}[-_]\d{2}', s)
SearchDate(s) ==
    \E i \in 1..Len(s) :
        /\ \A k \in 0..3 : IsDigitAt(s, i + k)
        /\ IsSepAt(s, i + 4)
        /\ IsDigitAt(s, i + 5) /\ IsDigitAt(s, i + 6)
        /\ IsSepAt(s, i + 7)
        /\ IsDigitAt(s, i + 8) /\ IsDigitAt(s, i + 9)

\* re.search(r'v\d+\.\d+', s)
SearchVersion(s) ==
    \E i \in 1..Len(s) : \E j \in (i + 2)..Len(s) :
        /\ s[i] = "v"
        /\ \A k \in (i + 1)..(j - 1) : s[k] \in Digits
        /\ s[j] = "."
        /\ IsDigitAt(s, j + 1)

RECURSIVE Decimal(_)
\* the decimal digits of a natural number
Decimal(n) ==
    IF n < 10 THEN <<DigitChars[n + 1]>>
    ELSE Decimal(n \div 10) \o <<DigitChars[(n % 10) + 1]>>

RECURSIVE Join(_, _)
\* sep.join(parts)
Join(parts, sep) ==
    IF parts = <<>> THEN <<>>
    ELSE IF Len(parts) = 1 THEN parts[1]
    ELSE parts[1] \o sep \o Join(Tail(parts), sep)

----------------------------------------------------------------------------
(* pathlib.  A path is [abs, parts]: whether it starts at "/", and its       *)
(* components.                                                             *)

\* Path.name
PathName(p) == IF p.parts = <<>> THEN <<>> ELSE p.parts[Len(p.parts)]

\* Path.parent
PathParent(p) ==
    IF p.parts = <<>> THEN p
    ELSE [abs |-> p.abs, parts |-> SubSeq(p.parts, 1, Len(p.parts) - 1)]

\* str(Path)
PathStr(p) ==
    IF p.parts = <<>> THEN (IF p.abs THEN <<"/">> ELSE <<".">>)
    ELSE (IF p.abs THEN <<"/">> ELSE <<>>) \o Join(p.parts, <<"/">>)

\* len(Path(str(p)).parts): the anchor "/" is a part of its own
PartsCount(p) == (IF p.abs THEN 1 ELSE 0) + Len(p.parts)

\* the last index of "." in name, 0 when there is none (str.rfind, one-based)
RFindDot(name) ==
    IF \E i \in 1..Len(name) : name[i] = "."
    THEN CHOOSE i \in 1..Len(name) :
             name[i] = "." /\ \A j \in (i + 1)..Len(name) : name[j] # "."
    ELSE 0

\* Path.suffix: from the last dot, unless that dot starts or ends the name
Suffix(p) ==
    LET name == PathName(p)
        i == RFindDot(name)
    IN  IF i > 1 /\ i < Len(name) THEN SubSeq(name, i, Len(name)) ELSE <<>>

----------------------------------------------------------------------------
(* AIFileClassifier.__init__: the fixed tables *)

critical_dirs ==
    << <<"c","o","n","t","r","a","c","t","s">> (* contracts *), <<"f","i","n","a","n","c","i","a","l">> (* financial *), <<"b","a","c","k","u","p">> (* backup *), <<"k","e","y","s">> (* keys *),
       <<"p","a","s","s","w","o","r","d","s">> (* passwords *), <<"c","o","n","f","i","d","e","n","t","i","a","l">> (* confidential *), <<"l","e","g","a","l">> (* legal *) >>

\* extension -> weight, in tenths
extension_weights ==
    << <<<<".","p","d","f">> (* .pdf *), 7>>, <<<<".","d","o","c","x">> (* .docx *), 6>>, <<<<".","x","l","s","x">> (* .xlsx *), 8>>,
       <<<<".","p","y">> (* .py *), 4>>, <<<<".","r","s">> (* .rs *), 4>>, <<<<".","j","s">> (* .js *), 3>>, <<<<".","s","q","l">> (* .sql *), 9>>,
       <<<<".","e","n","v">> (* .env *), 9>>, <<<<".","c","o","n","f","i","g">> (* .config *), 6>>, <<<<".","j","s","o","n">> (* .json *), 5>>,
       <<<<".","b","a","k">> (* .bak *), 8>>, <<<<".","d","u","m","p">> (* .dump *), 9>>,
       <<<<".","t","m","p">> (* .tmp *), 1>>, <<<<".","c","a","c","h","e">> (* .cache *), 1>>, <<<<".","l","o","g">> (* .log *), 2>> >>

critical_keywords ==
    << <<"c","o","n","t","r","a","t","o">> (* contrato *), <<"c","o","n","t","r","a","c","t">> (* contract *), <<"s","e","n","h","a">> (* senha *), <<"p","a","s","s","w","o","r","d">> (* password *), <<"k","e","y">> (* key *), <<"c","h","a","v","e">> (* chave *),
       <<"b","a","c","k","u","p">> (* backup *), <<"f","i","n","a","n","c","e","i","r","o">> (* financeiro *), <<"f","i","n","a","n","c","i","a","l">> (* financial *), <<"c","o","n","f","i","d","e","n","c","i","a","l">> (* confidencial *), <<"s","e","c","r","e","t">> (* secret *),
       <<"a","d","m","i","n">> (* admin *), <<"r","o","o","t">> (* root *), <<"m","a","s","t","e","r">> (* master *), <<"p","r","i","v","a","t","e">> (* private *), <<"l","e","g","a","l">> (* legal *) >>

----------------------------------------------------------------------------
(* The four signals *)

RECURSIVE keyword_loop(_, _, _)
\* for keyword in critical_keywords: if keyword in filename_lower: score += 30
keyword_loop(keywords, filename_lower, score) ==
    IF keywords = <<>> THEN score
    ELSE keyword_loop(Tail(keywords), filename_lower,
                      IF Contains(Head(keywords), filename_lower)
                      THEN score + 30 ELSE score)

RECURSIVE keyword_loop_break(_, _, _)
\* the loop with a break after the first keyword found
keyword_loop_break(keywords, filename_lower, score) ==
    IF keywords = <<>> THEN score
    ELSE IF Contains(Head(keywords), filename_lower) THEN score + 30
    ELSE keyword_loop_break(Tail(keywords), filename_lower, score)

_analyze_filename_first_match(filename) ==
    LET filename_lower == lower(filename)
        s1 == keyword_loop_break(critical_keywords, filename_lower, 0)
        s2 == IF SearchDate(filename) THEN s1 + 15 ELSE s1
        s3 == IF SearchVersion(filename_lower) THEN s2 + 10 ELSE s2
    IN  Min(s3, 60)

_analyze_filename(filename) ==
    LET filename_lower == lower(filename)
        s1 == keyword_loop(critical_keywords, filename_lower, 0)
        s2 == IF SearchDate(filename) THEN s1 + 15 ELSE s1
        s3 == IF SearchVersion(filename_lower) THEN s2 + 10 ELSE s2
    IN  Min(s3, 60)

\* int(weight * 50) with the weight in tenths: the products are whole numbers
_analyze_extension(extension) ==
    LET e == lower(extension)
    IN  IF \E i \in 1..Len(extension_weights) : extension_weights[i][1] = e
        THEN LET i == CHOOSE k \in 1..Len(extension_weights) :
                          extension_weights[k][1] = e
             IN  (extension_weights[i][2] * 50) \div 10
        ELSE 5

\* dir is the parent Path; the code is handed str(dir)
_analyze_directory(dir) ==
    LET dir_lower == lower(PathStr(dir))
        s1 == IF \E i \in 1..Len(critical_dirs) :
                      Contains(critical_dirs[i], dir_lower)
              THEN 50 ELSE 0
        depth == PartsCount(dir)
        s2 == IF depth > 5 THEN s1 + 10 ELSE s1
    IN  Min(s2, 60)

_analyze_size(size_bytes) ==
    IF size_bytes > 100000000 THEN 25
    ELSE IF size_bytes > 10000000 THEN 15
    ELSE IF size_bytes > 1000000 THEN 10
    ELSE IF size_bytes < 1024 THEN 15
    ELSE 5

\* f"{num/den:.1f}": one decimal, ties to the even digit
Fixed1(num, den) ==
    LET q == num \div den
        r10 == (num % den) * 10
        t == r10 \div den
        rem2 == (r10 % den) * 2
        up == rem2 > den \/ (rem2 = den /\ t % 2 = 1)
        tenths == q * 10 + t + (IF up THEN 1 ELSE 0)
    IN  Decimal(tenths \div 10) \o <<".">> \o Decimal(tenths % 10)

RECURSIVE format_loop(_, _, _)
\* the loop of _format_size; size_bytes / den is the float the code holds
\* (den is a power of 1024, so the float is exact)
format_loop(size_bytes, den, units) ==
    IF units = <<>> THEN Fixed1(size_bytes, den) \o <<"T","B">> (* TB *)
    ELSE IF size_bytes < 1024 * den THEN Fixed1(size_bytes, den) \o Head(units)
    ELSE format_loop(size_bytes, den * 1024, Tail(units))

_format_size(size_bytes) ==
    format_loop(size_bytes, 1, << <<"B">>, <<"K","B">> (* KB *), <<"M","B">> (* MB *), <<"G","B">> (* GB *) >>)

\* the chain with the Log set tested before the Document set
_categorize_file_log_first(path) ==
    LET ext == lower(Suffix(path))
    IN  IF ext \in {<<".","l","o","g">> (* .log *), <<".","t","x","t">> (* .txt *)} THEN "Log"
        ELSE IF ext \in {<<".","p","d","f">> (* .pdf *), <<".","d","o","c","x">> (* .docx *), <<".","d","o","c">> (* .doc *), <<".","t","x","t">> (* .txt *)} THEN "Document"
        ELSE IF ext \in {<<".","x","l","s","x">> (* .xlsx *), <<".","c","s","v">> (* .csv *), <<".","x","l","s">> (* .xls *)} THEN "Spreadsheet"
        ELSE IF ext \in {<<".","p","y">> (* .py *), <<".","r","s">> (* .rs *), <<".","j","s">> (* .js *), <<".","j","a","v","a">> (* .java *), <<".","c","p","p">> (* .cpp *), <<".","c">> (* .c *)}
             THEN "Source Code"
        ELSE IF ext \in {<<".","s","q","l">> (* .sql *), <<".","d","b">> (* .db *), <<".","s","q","l","i","t","e">> (* .sqlite *)} THEN "Database"
        ELSE IF ext \in {<<".","j","s","o","n">> (* .json *), <<".","y","a","m","l">> (* .yaml *), <<".","y","m","l">> (* .yml *), <<".","t","o","m","l">> (* .toml *), <<".","e","n","v">> (* .env *)}
             THEN "Configuration"
        ELSE IF ext \in {<<".","j","p","g">> (* .jpg *), <<".","p","n","g">> (* .png *), <<".","g","i","f">> (* .gif *), <<".","b","m","p">> (* .bmp *)} THEN "Image"
        ELSE IF ext \in {<<".","m","p","4">> (* .mp4 *), <<".","a","v","i">> (* .avi *), <<".","m","o","v">> (* .mov *)} THEN "Video"
        ELSE IF ext \in {<<".","z","i","p">> (* .zip *), <<".","t","a","r">> (* .tar *), <<".","g","z">> (* .gz *), <<".","r","a","r">> (* .rar *)} THEN "Archive"
        ELSE "Other"

_categorize_file(path) ==
    LET ext == lower(Suffix(path))
    IN  IF ext \in {<<".","p","d","f">> (* .pdf *), <<".","d","o","c","x">> (* .docx *), <<".","d","o","c">> (* .doc *), <<".","t","x","t">> (* .txt *)} THEN "Document"
        ELSE IF ext \in {<<".","x","l","s","x">> (* .xlsx *), <<".","c","s","v">> (* .csv *), <<".","x","l","s">> (* .xls *)} THEN "Spreadsheet"
        ELSE IF ext \in {<<".","p","y">> (* .py *), <<".","r","s">> (* .rs *), <<".","j","s">> (* .js *), <<".","j","a","v","a">> (* .java *), <<".","c","p","p">> (* .cpp *), <<".","c">> (* .c *)}
             THEN "Source Code"
        ELSE IF ext \in {<<".","s","q","l">> (* .sql *), <<".","d","b">> (* .db *), <<".","s","q","l","i","t","e">> (* .sqlite *)} THEN "Database"
        ELSE IF ext \in {<<".","j","s","o","n">> (* .json *), <<".","y","a","m","l">> (* .yaml *), <<".","y","m","l">> (* .yml *), <<".","t","o","m","l">> (* .toml *), <<".","e","n","v">> (* .env *)}
             THEN "Configuration"
        ELSE IF ext \in {<<".","j","p","g">> (* .jpg *), <<".","p","n","g">> (* .png *), <<".","g","i","f">> (* .gif *), <<".","b","m","p">> (* .bmp *)} THEN "Image"
        ELSE IF ext \in {<<".","m","p","4">> (* .mp4 *), <<".","a","v","i">> (* .avi *), <<".","m","o","v">> (* .mov *)} THEN "Video"
        ELSE IF ext \in {<<".","z","i","p">> (* .zip *), <<".","t","a","r">> (* .tar *), <<".","g","z">> (* .gz *), <<".","r","a","r">> (* .rar *)} THEN "Archive"
        ELSE IF ext \in {<<".","l","o","g">> (* .log *), <<".","t","x","t">> (* .txt *)} THEN "Log"
        ELSE "Other"


----------------------------------------------------------------------------
(* analyze_file.  The outcome st of path.stat() is the environment's:      *)
(* [kind |-> "size", size |-> n], or kind "OSError" (a missing file, no    *)
(* permission), or kind "ValueError" (what os.stat raises for a path with  *)
(* an embedded NUL: an exception that is not an OSError).                  *)

Reason(label, text) == [label |-> label, text |-> text]

\* step 4 without the try: every failure of stat propagates
size_step_no_try(st) ==
    IF st.kind = "size"
    THEN LET size_score == _analyze_size(st.size)
         IN  [raised |-> FALSE, score |-> size_score,
              reasons |-> IF size_score > 20
                          THEN <<Reason("Tamanho significativo",
                                        _format_size(st.size))>>
                          ELSE <<>>]
    ELSE [raised |-> TRUE, score |-> 0, reasons |-> <<>>]

\* step 4: try: size = path.stat().st_size ... except OSError: pass
size_step(st) ==
    IF st.kind = "size"
    THEN LET size_score == _analyze_size(st.size)
         IN  [raised |-> FALSE, score |-> size_score,
              reasons |-> IF size_score > 20
                          THEN <<Reason("Tamanho significativo",
                                        _format_size(st.size))>>
                          ELSE <<>>]
    ELSE IF st.kind = "OSError"
    THEN [raised |-> FALSE, score |-> 0, reasons |-> <<>>]
    ELSE [raised |-> TRUE, score |-> 0, reasons |-> <<>>]

\* the thresholds compared with > where the code has >=
final_criticality_strict(risk_score) ==
    IF risk_score > 80 THEN [criticality |-> "CRITICAL", confidence |-> 9]
    ELSE IF risk_score > 60 THEN [criticality |-> "HIGH", confidence |-> 8]
    ELSE IF risk_score > 30 THEN [criticality |-> "MEDIUM", confidence |-> 7]
    ELSE [criticality |-> "LOW", confidence |-> 6]

\* step 5; the confidence is kept in tenths (9 is 0.9)
final_criticality(risk_score) ==
    IF risk_score >= 80 THEN [criticality |-> "CRITICAL", confidence |-> 9]
    ELSE IF risk_score >= 60 THEN [criticality |-> "HIGH", confidence |-> 8]
    ELSE IF risk_score >= 30 THEN [criticality |-> "MEDIUM", confidence |-> 7]
    ELSE [criticality |-> "LOW", confidence |-> 6]

\* the sum returned as it is
returned_score_unclamped(risk_score) == risk_score

\* risk_score=min(risk_score, 100)
returned_score(risk_score) == Min(risk_score, 100)

\* [raised |-> TRUE, value |-> <<>>] when an exception leaves the function,
\* else [raised |-> FALSE, value |-> <<the FileAnalysis>>]
analyze_file(file_path, st) ==
    LET path == file_path
        filename_score == _analyze_filename(PathName(path))
        reasons1 == IF filename_score > 50
                    THEN <<Reason("Nome suspeito", PathName(path))>>
                    ELSE <<>>
        ext_score == _analyze_extension(Suffix(path))
        reasons2 == IF ext_score > 30
                    THEN reasons1 \o <<Reason("Extensao critica", Suffix(path))>>
                    ELSE reasons1
        dir_score == _analyze_directory(PathParent(path))
        reasons3 == IF dir_score > 40
                    THEN reasons2 \o <<Reason("Diretorio sensivel",
                                              PathName(PathParent(path)))>>
                    ELSE reasons2
        step4 == size_step(st)
        risk_score == filename_score + ext_score + dir_score + step4.score
        final == final_criticality(risk_score)
    IN  IF step4.raised
        THEN [raised |-> TRUE, value |-> <<>>]
        ELSE [raised |-> FALSE,
              value |-> <<[path |-> file_path,
                           criticality |-> final.criticality,
                           confidence |-> final.confidence,
                           reasons |-> reasons3 \o step4.reasons,
                           category |-> _categorize_file(path),
                           risk_score |-> returned_score(risk_score)]>>]

----------------------------------------------------------------------------
(* Inputs of the scorer *)

\* the longest run of keyword fragments in a drawn file name
MaxKw == 2

KwFrags ==
    { critical_keywords[i] : i \in 1..Len(critical_keywords) }
    \cup { <<"c","o","n","f","i","d","e","n","t","i","a","l">> (* confidential *), <<"K","E","Y">> (* KEY *) }

\* what follows the keywords: a date or not quite one, a version or not quite one
TailFrags ==
    { <<>>, <<"_","2","0","2","4","-","0","1","-","1","5">> (* _2024-01-15 *), <<"_","2","0","2","4","-","1","-","1","5">> (* _2024-1-15 *), <<"_","V","1","0",".","2","5">> (* _V10.25 *), <<"_","v","2">> (* _v2 *),
      <<"_","2","0","2","4","_","0","1","_","1","5","_","v","2",".","0">> (* _2024_01_15_v2.0 *) }

RECURSIVE KwRuns(_)
\* the runs of at most n fragments, joined by "_"
KwRuns(n) ==
    IF n = 0 THEN { <<>> }
    ELSE KwRuns(n - 1) \cup
         { (IF r = <<>> THEN f ELSE r \o <<"_">> \o f) :
               r \in KwRuns(n - 1) \ {<<>>}, f \in KwFrags }
         \cup KwFrags

Filenames ==
    { k \o t \o <<".","p","d","f">> (* .pdf *) : k \in KwRuns(MaxKw), t \in TailFrags }

SampleStems ==
    { <<"n","o","t","e","s">> (* notes *), <<"c","o","n","t","r","a","t","o","_","2","0","2","4","-","0","1","-","1","5","_","v","2",".","0">> (* contrato_2024-01-15_v2.0 *), <<"b","a","c","k","u","p","_","k","e","y">> (* backup_key *), <<"s","e","n","h","a">> (* senha *),
      <<"M","a","s","t","e","r","_","P","r","i","v","a","t","e","_","K","e","y">> (* Master_Private_Key *), <<>> }

SampleExts ==
    { <<>>, <<".","x","y","z">> (* .xyz *), <<".","P","D","F">> (* .PDF *), <<".","T","X","T">> (* .TXT *),
      <<".","p","d","f">> (* .pdf *), <<".","d","o","c","x">> (* .docx *), <<".","d","o","c">> (* .doc *), <<".","t","x","t">> (* .txt *), <<".","x","l","s","x">> (* .xlsx *), <<".","c","s","v">> (* .csv *), <<".","x","l","s">> (* .xls *),
      <<".","p","y">> (* .py *), <<".","r","s">> (* .rs *), <<".","j","s">> (* .js *), <<".","j","a","v","a">> (* .java *), <<".","c","p","p">> (* .cpp *), <<".","c">> (* .c *),
      <<".","s","q","l">> (* .sql *), <<".","d","b">> (* .db *), <<".","s","q","l","i","t","e">> (* .sqlite *),
      <<".","j","s","o","n">> (* .json *), <<".","y","a","m","l">> (* .yaml *), <<".","y","m","l">> (* .yml *), <<".","t","o","m","l">> (* .toml *), <<".","e","n","v">> (* .env *),
      <<".","j","p","g">> (* .jpg *), <<".","p","n","g">> (* .png *), <<".","g","i","f">> (* .gif *), <<".","b","m","p">> (* .bmp *), <<".","m","p","4">> (* .mp4 *), <<".","a","v","i">> (* .avi *), <<".","m","o","v">> (* .mov *),
      <<".","z","i","p">> (* .zip *), <<".","t","a","r">> (* .tar *), <<".","g","z">> (* .gz *), <<".","r","a","r">> (* .rar *), <<".","l","o","g">> (* .log *),
      <<".","c","o","n","f","i","g">> (* .config *), <<".","b","a","k">> (* .bak *), <<".","d","u","m","p">> (* .dump *), <<".","t","m","p">> (* .tmp *), <<".","c","a","c","h","e">> (* .cache *) }

SampleDirs ==
    { [abs |-> FALSE, parts |-> <<>>],
      [abs |-> TRUE, parts |-> << <<"t","m","p">> (* tmp *), <<"s","c","r","a","t","c","h">> (* scratch *) >>],
      [abs |-> TRUE, parts |-> << <<"h","o","m","e">> (* home *), <<"u","s","e","r">> (* user *), <<"c","o","n","t","r","a","c","t","s">> (* contracts *), <<"2","0","2","4">> (* 2024 *) >>],
      [abs |-> TRUE, parts |-> << <<"a">>, <<"b">>, <<"c">>, <<"d">>, <<"e">> >>],
      [abs |-> TRUE, parts |-> << <<"s","r","v">> (* srv *), <<"B","a","c","k","u","p">> (* Backup *), <<"w">>, <<"x">>, <<"y">>, <<"z">> >>],
      [abs |-> FALSE, parts |-> << <<"k","e","y","s">> (* keys *) >>] }

SampleSizes ==
    { 0, 50, 1023, 1024, 1000000, 1000001, 2097152, 10000000, 10000001,
      100000000, 100000001, 105119744 }

StatOutcomes ==
    { [kind |-> "size", size |-> n] : n \in SampleSizes }
    \cup { [kind |-> "OSError", size |-> 0], [kind |-> "ValueError", size |-> 0] }

SamplePaths ==
    { [abs |-> d.abs, parts |-> Append(d.parts, s \o e)] :
          d \in SampleDirs, s \in SampleStems, e \in SampleExts }
    \ { [abs |-> d.abs, parts |-> Append(d.parts, <<>>)] : d \in SampleDirs }

NoFs == [dirs |-> {}, files |-> {}]

----------------------------------------------------------------------------
(* The scorer called on one path *)

InitFile ==
    /\ pc = "analyze_file"
    /\ arg \in [path : SamplePaths, st : StatOutcomes]
    /\ ret = <<>>
    /\ fs = NoFs /\ stack = <<>> /\ pending = <<>> /\ analyses = <<>>
    /\ log = <<>> /\ visited = <<>>

AnalyzeFile ==
    /\ pc = "analyze_file"
    /\ LET r == analyze_file(arg.path, arg.st)
       IN  /\ pc' = IF r.raised THEN "raised" ELSE "returned"
           /\ ret' = r.value
    /\ UNCHANGED <<arg, fs, stack, pending, analyses, log, visited>>

NextFile == AnalyzeFile

SpecFile == InitFile /\ [][NextFile]_vars

(* _analyze_filename called on one file name *)

InitName ==
    /\ pc = "_analyze_filename"
    /\ arg \in Filenames
    /\ ret = <<>>
    /\ fs = NoFs /\ stack = <<>> /\ pending = <<>> /\ analyses = <<>>
    /\ log = <<>> /\ visited = <<>>

AnalyzeFilename ==
    /\ pc = "_analyze_filename"
    /\ pc' = "returned"
    /\ ret' = <<_analyze_filename(arg)>>
    /\ UNCHANGED <<arg, fs, stack, pending, analyses, log, visited>>

NextName == AnalyzeFilename

SpecName == InitName /\ [][NextName]_vars


----------------------------------------------------------------------------
(* Properties of the scorer *)

\* the signals of the call in progress, recomputed from its argument
SignalSum ==
    _analyze_filename(PathName(arg.path))
    + _analyze_extension(Suffix(arg.path))
    + _analyze_directory(PathParent(arg.path))
    + (IF arg.st.kind = "size" THEN _analyze_size(arg.st.size) ELSE 0)

\* C1: whatever the path and the outcome of the size lookup, the returned
\* criticality and confidence are fixed by the unclamped sum S of the four
\* signals: S >= 80 CRITICAL 0.9, 60..79 HIGH 0.8, 30..59 MEDIUM 0.7,
\* below 30 LOW 0.6.
C1_CriticalityFromSum ==
    pc = "returned" =>
        LET S == SignalSum
            a == ret[1]
        IN  /\ S >= 80 => a.criticality = "CRITICAL" /\ a.confidence = 9
            /\ (S >= 60 /\ S <= 79) => a.criticality = "HIGH" /\ a.confidence = 8
            /\ (S >= 30 /\ S <= 59) => a.criticality = "MEDIUM" /\ a.confidence = 7
            /\ S < 30 => a.criticality = "LOW" /\ a.confidence = 6

\* a sum of exactly 80, the lowest CRITICAL one, has been scored
C1_Witness ==
    pc = "returned" /\ SignalSum = 80 /\ ret[1].criticality = "CRITICAL"

\* C2: the returned risk_score is an integer between 0 and 100, whatever
\* signals fire and whether or not the size lookup succeeds.
C2_RiskScoreRange ==
    pc = "returned" => ret[1].risk_score \in 0..100

\* a sum above 100 has been returned as 100, after a failed size lookup
C2_Witness ==
    /\ pc = "returned" /\ arg.st.kind = "OSError"
    /\ SignalSum > 100 /\ ret[1].risk_score = 100

\* the keyword list as the claim gives it
ClaimedKeywords ==
    { <<"c","o","n","t","r","a","c","t">> (* contract *), <<"c","o","n","t","r","a","t","o">> (* contrato *), <<"p","a","s","s","w","o","r","d">> (* password *), <<"s","e","n","h","a">> (* senha *), <<"k","e","y">> (* key *), <<"c","h","a","v","e">> (* chave *),
      <<"b","a","c","k","u","p">> (* backup *), <<"f","i","n","a","n","c","i","a","l">> (* financial *), <<"f","i","n","a","n","c","e","i","r","o">> (* financeiro *), <<"c","o","n","f","i","d","e","n","t","i","a","l">> (* confidential *), <<"s","e","c","r","e","t">> (* secret *),
      <<"a","d","m","i","n">> (* admin *), <<"r","o","o","t">> (* root *), <<"m","a","s","t","e","r">> (* master *), <<"p","r","i","v","a","t","e">> (* private *), <<"l","e","g","a","l">> (* legal *) }

\* the same list with 'confidencial' where the claim has 'confidential'
AmendedKeywords ==
    { <<"c","o","n","t","r","a","c","t">> (* contract *), <<"c","o","n","t","r","a","t","o">> (* contrato *), <<"p","a","s","s","w","o","r","d">> (* password *), <<"s","e","n","h","a">> (* senha *), <<"k","e","y">> (* key *), <<"c","h","a","v","e">> (* chave *),
      <<"b","a","c","k","u","p">> (* backup *), <<"f","i","n","a","n","c","i","a","l">> (* financial *), <<"f","i","n","a","n","c","e","i","r","o">> (* financeiro *), <<"c","o","n","f","i","d","e","n","c","i","a","l">> (* confidencial *), <<"s","e","c","r","e","t">> (* secret *),
      <<"a","d","m","i","n">> (* admin *), <<"r","o","o","t">> (* root *), <<"m","a","s","t","e","r">> (* master *), <<"p","r","i","v","a","t","e">> (* private *), <<"l","e","g","a","l">> (* legal *) }

\* min(60, 30k + 15d + 10v) for a file name and a keyword list
FilenameFormula(keywords, filename) ==
    LET lowered == lower(filename)
        k == Cardinality({ w \in keywords : Contains(w, lowered) })
        d == IF SearchDate(filename) THEN 1 ELSE 0
        v == IF SearchVersion(lowered) THEN 1 ELSE 0
    IN  Min(60, 30 * k + 15 * d + 10 * v)

\* C3 as claimed: the filename signal is min(60, 30k + 15d + 10v) with k
\* counted over the list that has 'confidential'.
C3_Original ==
    pc = "returned" => ret[1] = FilenameFormula(ClaimedKeywords, arg)

\* C3 as amended: the filename signal is min(60, 30k + 15d + 10v) with k
\* counted over the list that has 'confidencial' (not 'confidential'); every
\* matching keyword counts.
C3_FilenameSignal ==
    pc = "returned" => ret[1] = FilenameFormula(AmendedKeywords, arg)

\* 'confidencial' and a second keyword and a date: 75, returned as 60
C3_Witness ==
    /\ pc = "returned"
    /\ Contains(<<"c","o","n","f","i","d","e","n","c","i","a","l">> (* confidencial *), arg) /\ Contains(<<"b","a","c","k","u","p">> (* backup *), arg)
    /\ SearchDate(arg)
    /\ ret[1] = 60

\* C8 as claimed: when the size lookup fails, whatever the exception,
\* analyze_file returns, and the size signal contributes 0.
C8_Original ==
    (pc # "analyze_file" /\ arg.st.kind # "size") =>
        /\ pc = "returned"
        /\ ret[1].risk_score = Min(100, SignalSum)

SizeLabel == "Tamanho significativo"

NonSizeReasons(reasons) == SelectSeq(reasons, LAMBDA r : r.label # SizeLabel)

\* C8 as amended: when the size lookup fails with an OSError, analyze_file
\* returns; the size signal contributes 0, no size reason is added, and the
\* other reasons and the category are those of a successful lookup.
C8_OSErrorSwallowed ==
    (pc # "analyze_file" /\ arg.st.kind = "OSError") =>
        /\ pc = "returned"
        /\ ret[1].risk_score =
             Min(100, _analyze_filename(PathName(arg.path))
                      + _analyze_extension(Suffix(arg.path))
                      + _analyze_directory(PathParent(arg.path)))
        /\ NonSizeReasons(ret[1].reasons) = ret[1].reasons
        /\ \A n \in SampleSizes :
               LET ok == analyze_file(arg.path, [kind |-> "size", size |-> n])
               IN  /\ ~ok.raised
                   /\ ok.value[1].category = ret[1].category
                   /\ NonSizeReasons(ok.value[1].reasons) = ret[1].reasons

\* a file whose three other signals all give a reason, scored after an OSError
C8_Witness ==
    /\ pc = "returned" /\ arg.st.kind = "OSError"
    /\ Len(ret[1].reasons) = 3

CategoryNames ==
    { "Document", "Spreadsheet", "Source Code", "Database", "Configuration",
      "Image", "Video", "Archive", "Log", "Other" }

CategorizedExts ==
    { <<".","p","d","f">> (* .pdf *), <<".","d","o","c","x">> (* .docx *), <<".","d","o","c">> (* .doc *), <<".","t","x","t">> (* .txt *), <<".","x","l","s","x">> (* .xlsx *), <<".","c","s","v">> (* .csv *), <<".","x","l","s">> (* .xls *),
      <<".","p","y">> (* .py *), <<".","r","s">> (* .rs *), <<".","j","s">> (* .js *), <<".","j","a","v","a">> (* .java *), <<".","c","p","p">> (* .cpp *), <<".","c">> (* .c *),
      <<".","s","q","l">> (* .sql *), <<".","d","b">> (* .db *), <<".","s","q","l","i","t","e">> (* .sqlite *), <<".","j","s","o","n">> (* .json *), <<".","y","a","m","l">> (* .yaml *), <<".","y","m","l">> (* .yml *), <<".","t","o","m","l">> (* .toml *),
      <<".","e","n","v">> (* .env *), <<".","j","p","g">> (* .jpg *), <<".","p","n","g">> (* .png *), <<".","g","i","f">> (* .gif *), <<".","b","m","p">> (* .bmp *), <<".","m","p","4">> (* .mp4 *), <<".","a","v","i">> (* .avi *), <<".","m","o","v">> (* .mov *),
      <<".","z","i","p">> (* .zip *), <<".","t","a","r">> (* .tar *), <<".","g","z">> (* .gz *), <<".","r","a","r">> (* .rar *), <<".","l","o","g">> (* .log *) }

\* C9: the category is one of the ten names, is that of the bare lower-cased
\* extension whatever the name, directory, size and score, is Other for an
\* extension in no set, is Document for '.txt', and is Log only for '.log'.
C9_CategoryFromExtension ==
    pc = "returned" =>
        LET ext == lower(Suffix(arg.path))
            cat == ret[1].category
        IN  /\ cat \in CategoryNames
            /\ cat = _categorize_file([abs |-> FALSE, parts |-> << <<"x">> \o ext >>])
            /\ ext \notin CategorizedExts => cat = "Other"
            /\ ext = <<".","t","x","t">> (* .txt *) => cat = "Document"
            /\ cat = "Log" <=> ext = <<".","l","o","g">> (* .log *)

\* an upper-case '.TXT' file has been given Document
C9_Witness ==
    /\ pc = "returned"
    /\ Suffix(arg.path) = <<".","T","X","T">> (* .TXT *)
    /\ ret[1].category = "Document"


----------------------------------------------------------------------------
(* analyze_directory.  The file system below the root is the environment's: *)
(* fs.dirs and fs.files hold paths relative to the root, as sequences of    *)
(* names.  It is built before the call and does not change during it.       *)

\* the most directories below the root
MaxDirs == 2
\* the most files below the root
MaxFiles == 3

\* the three names the walk skips, and one it does not
DirNames == { <<".","g","i","t">> (* .git *), <<"_","_","p","y","c","a","c","h","e","_","_">> (* __pycache__ *), <<"n","o","d","e","_","m","o","d","u","l","e","s">> (* node_modules *), <<".","g","i","t","h","u","b">> (* .github *) }

\* a regular file may be named .git (a worktree's or submodule's pointer)
FileNames == { <<"k","e","y",".","p","e","m">> (* key.pem *), <<".","g","i","t">> (* .git *) }

\* directory_path
RootPath == [abs |-> TRUE, parts |-> << <<"s","r","v">> (* srv *) >>]

\* os.path.join(root, file), as the Path analyze_file makes of it
JoinRoot(rel) == [abs |-> RootPath.abs, parts |-> RootPath.parts \o rel]

\* how the scorer's size lookup may end for a file met in the walk
WalkStatOutcomes ==
    { [kind |-> "size", size |-> 2048], [kind |-> "ValueError", size |-> 0] }

Last(seq) == seq[Len(seq)]

\* the entries of directory top, by kind
SubdirsOf(top) ==
    { Last(d) : d \in { x \in fs.dirs : Len(x) = Len(top) + 1
                                        /\ SubSeq(x, 1, Len(top)) = top } }

FilesOf(top) ==
    { Last(f) : f \in { x \in fs.files : Len(x) = Len(top) + 1
                                         /\ SubSeq(x, 1, Len(top)) = top } }

\* the orders in which scandir may hand out a set of names
Orderings(S) ==
    { q \in [1..Cardinality(S) -> S] :
          \A i, j \in 1..Cardinality(S) : i # j => q[i] # q[j] }

\* the list without 'node_modules'
filter_dirs_short_list(dirs) ==
    SelectSeq(dirs, LAMBDA d : d \notin { <<".","g","i","t">> (* .git *), <<"_","_","p","y","c","a","c","h","e","_","_">> (* __pycache__ *) })

\* dirs[:] = [d for d in dirs if d not in ['.git', '__pycache__', 'node_modules']]
filter_dirs(dirs) ==
    SelectSeq(dirs, LAMBDA d : d \notin { <<".","g","i","t">> (* .git *), <<"_","_","p","y","c","a","c","h","e","_","_">> (* __pycache__ *), <<"n","o","d","e","_","m","o","d","u","l","e","s">> (* node_modules *) })

\* the body of the file loop without its try: the exception leaves the loop
score_step_no_try(file_path, st, done, logged) ==
    LET r == analyze_file(JoinRoot(file_path), st)
    IN  IF r.raised
        THEN [propagates |-> TRUE, analyses |-> done, log |-> logged]
        ELSE [propagates |-> FALSE, analyses |-> Append(done, r.value[1]),
              log |-> logged]

\* try: analyses.append(self.analyze_file(file_path))
\* except Exception: self.logger.warning(...)
score_step(file_path, st, done, logged) ==
    LET r == analyze_file(JoinRoot(file_path), st)
    IN  IF r.raised
        THEN [propagates |-> FALSE, analyses |-> done,
              log |-> Append(logged, [level |-> "warning", about |-> file_path])]
        ELSE [propagates |-> FALSE, analyses |-> Append(done, r.value[1]),
              log |-> logged]

InitDir ==
    /\ pc = "setup"
    /\ arg = "ok"
    /\ ret = <<>>
    /\ fs = NoFs /\ stack = <<>> /\ pending = <<>> /\ analyses = <<>>
    /\ log = <<>> /\ visited = <<>>

\* the environment makes a directory below the root
MkDir ==
    /\ pc = "setup"
    /\ Cardinality(fs.dirs) < MaxDirs
    /\ \E parent \in fs.dirs \cup { <<>> } : \E name \in DirNames :
           /\ Append(parent, name) \notin fs.dirs \cup fs.files
           /\ fs' = [fs EXCEPT !.dirs = @ \cup { Append(parent, name) }]
    /\ UNCHANGED <<pc, arg, ret, stack, pending, analyses, log, visited>>

\* the environment makes a file below the root
CreateFile ==
    /\ pc = "setup"
    /\ Cardinality(fs.files) < MaxFiles
    /\ \E parent \in fs.dirs \cup { <<>> } : \E name \in FileNames :
           /\ Append(parent, name) \notin fs.dirs \cup fs.files
           /\ fs' = [fs EXCEPT !.files = @ \cup { Append(parent, name) }]
    /\ UNCHANGED <<pc, arg, ret, stack, pending, analyses, log, visited>>

\* analyze_directory(directory_path) is called.  arg is how listing the root
\* will end: "ok"; "OSError" (the root is missing or unreadable, so nothing
\* is below it); "ValueError" (os.walk raises something that is no OSError,
\* as for a path with an embedded NUL).
CallAnalyzeDirectory ==
    /\ pc = "setup"
    /\ \E status \in { "ok", "OSError", "ValueError" } :
           /\ status # "ok" => fs = NoFs
           /\ arg' = status
    /\ pc' = "walk"
    /\ stack' = << <<>> >>
    /\ analyses' = <<>>
    /\ UNCHANGED <<ret, fs, pending, log, visited>>

\* os.walk lists the next directory and yields it; the loop body filters
\* dirs in place, and os.walk will descend into what is left, in order
WalkYield ==
    /\ pc = "walk" /\ pending = <<>> /\ stack # <<>>
    /\ arg = "ok"
    /\ LET top == Head(stack)
       IN  \E dirs \in Orderings(SubdirsOf(top)) :
           \E files \in Orderings(FilesOf(top)) :
               /\ stack' = [i \in 1..Len(filter_dirs(dirs)) |->
                                Append(top, filter_dirs(dirs)[i])]
                           \o Tail(stack)
               /\ pending' = [i \in 1..Len(files) |-> Append(top, files[i])]
    /\ UNCHANGED <<pc, arg, ret, fs, analyses, log, visited>>

\* scandir(top) raises an OSError: os.walk's onerror is None, so the error
\* is dropped and the generator ends without yielding
WalkScandirFails ==
    /\ pc = "walk" /\ pending = <<>> /\ stack # <<>>
    /\ arg = "OSError"
    /\ stack' = Tail(stack)
    /\ UNCHANGED <<pc, arg, ret, fs, pending, analyses, log, visited>>

\* os.walk raises something else: the outer except logs an error and the
\* function returns analyses
WalkRaises ==
    /\ pc = "walk" /\ pending = <<>> /\ stack # <<>>
    /\ arg = "ValueError"
    /\ log' = Append(log, [level |-> "error", about |-> <<>>])
    /\ pc' = "returned"
    /\ ret' = <<analyses>>
    /\ stack' = <<>>
    /\ UNCHANGED <<arg, fs, pending, analyses, visited>>

\* one turn of `for file in files`
ScoreFile ==
    /\ pc = "walk" /\ pending # <<>>
    /\ \E st \in WalkStatOutcomes :
           LET file_path == Head(pending)
               step == score_step(file_path, st, analyses, log)
           IN  /\ visited' = Append(visited,
                                    [path |-> file_path,
                                     raised |-> analyze_file(JoinRoot(file_path),
                                                             st).raised])
               /\ IF step.propagates
                  THEN /\ log' = Append(step.log, [level |-> "error", about |-> <<>>])
                       /\ analyses' = step.analyses
                       /\ pc' = "returned"
                       /\ ret' = <<step.analyses>>
                       /\ pending' = <<>>
                       /\ stack' = <<>>
                  ELSE /\ log' = step.log
                       /\ analyses' = step.analyses
                       /\ pending' = Tail(pending)
                       /\ UNCHANGED <<pc, ret, stack>>
    /\ UNCHANGED <<arg, fs>>

\* the generator is exhausted: return analyses
ReturnAnalyses ==
    /\ pc = "walk" /\ pending = <<>> /\ stack = <<>>
    /\ pc' = "returned"
    /\ ret' = <<analyses>>
    /\ UNCHANGED <<arg, fs, stack, pending, analyses, log, visited>>

NextDir ==
    \/ MkDir
    \/ CreateFile
    \/ CallAnalyzeDirectory
    \/ WalkYield
    \/ WalkScandirFails
    \/ WalkRaises
    \/ ScoreFile
    \/ ReturnAnalyses

SpecDir == InitDir /\ [][NextDir]_vars


----------------------------------------------------------------------------
(* Properties of analyze_directory *)

IgnoredNames == { <<".","g","i","t">> (* .git *), <<"_","_","p","y","c","a","c","h","e","_","_">> (* __pycache__ *), <<"n","o","d","e","_","m","o","d","u","l","e","s">> (* node_modules *) }

\* a file path that passes through no subdirectory with an ignored name
NotBelowIgnored(f) == \A i \in 1..(Len(f) - 1) : f[i] \notin IgnoredNames

ReachableFiles == { f \in fs.files : NotBelowIgnored(f) }

NoScorerFailure == \A i \in 1..Len(visited) : ~visited[i].raised

\* C4: no file below a subdirectory named .git, __pycache__ or node_modules
\* is ever scored, at any depth; and when no scoring raises, the paths of
\* the result are exactly the files not below such a subdirectory, each once.
C4_IgnoredDirectoriesSkipped ==
    /\ \A i \in 1..Len(visited) : NotBelowIgnored(visited[i].path)
    /\ (pc = "returned" /\ arg = "ok" /\ NoScorerFailure) =>
           /\ \A i, j \in 1..Len(ret[1]) :
                  i # j => ret[1][i].path # ret[1][j].path
           /\ { ret[1][i].path : i \in 1..Len(ret[1]) }
                  = { JoinRoot(f) : f \in ReachableFiles }

\* a walk has returned one file of a subdirectory and left out the file of
\* an ignored directory nested in it
C4_Witness ==
    /\ pc = "returned" /\ arg = "ok" /\ NoScorerFailure
    /\ \E f \in fs.files : Len(f) = 3 /\ f[2] \in IgnoredNames
    /\ \E g \in fs.files : Len(g) = 2 /\ g[1] \notin IgnoredNames
    /\ Len(ret[1]) = 1

PathsOf(seq) == [i \in 1..Len(seq) |-> seq[i].path]

\* C5: when the scorer raises for a file, a warning is logged and that file
\* alone is left out: the result holds, in the order of the traversal, every
\* visited file whose scoring succeeded, the traversal visits every file it
\* would have visited, and analyze_directory returns without an error.
C5_ScorerFailureSkipped ==
    /\ pc \in { "setup", "walk", "returned" }
    /\ PathsOf(analyses)
           = [i \in 1..Len(SelectSeq(visited, LAMBDA v : ~v.raised)) |->
                  JoinRoot(SelectSeq(visited, LAMBDA v : ~v.raised)[i].path)]
    /\ [i \in 1..Len(SelectSeq(log, LAMBDA e : e.level = "warning")) |->
              SelectSeq(log, LAMBDA e : e.level = "warning")[i].about]
           = PathsOf(SelectSeq(visited, LAMBDA v : v.raised))
    /\ (pc = "returned" /\ arg = "ok") =>
           /\ ret[1] = analyses
           /\ \A i \in 1..Len(log) : log[i].level = "warning"
           /\ { visited[i].path : i \in 1..Len(visited) } = ReachableFiles

\* a walk has returned after a scoring that succeeded, one that raised and
\* one that succeeded, in this order
C5_Witness ==
    /\ pc = "returned" /\ arg = "ok"
    /\ Len(visited) = 3
    /\ ~visited[1].raised /\ visited[2].raised /\ ~visited[3].raised
    /\ Len(ret[1]) = 2 /\ Len(log) = 1

\* C6: when the traversal of the root fails, an error is logged and the
\* empty sequence is returned.
C6_RootFailureLogged ==
    (pc = "returned" /\ arg # "ok") =>
        /\ \E i \in 1..Len(log) : log[i].level = "error"
        /\ ret[1] = <<>>


----------------------------------------------------------------------------
(* generate_risk_report.  The input is the variable analyses; the report   *)
(* is a function from its keys, the empty function for the empty mapping.  *)

\* the longest input handed to the report
MaxAnalyses == 11
\* the leading entries of an input that are drawn from every kind
MaxVaried == 2

RECURSIVE insert_stable(_, _)
\* x put after every entry whose risk_score is at least its own
insert_stable(sorted, x) ==
    IF sorted = <<>> THEN <<x>>
    ELSE IF Head(sorted).risk_score >= x.risk_score
         THEN <<Head(sorted)>> \o insert_stable(Tail(sorted), x)
         ELSE <<x>> \o sorted

RECURSIVE insert_before_equal(_, _)
\* x put before the entries whose risk_score equals its own
insert_before_equal(sorted, x) ==
    IF sorted = <<>> THEN <<x>>
    ELSE IF Head(sorted).risk_score > x.risk_score
         THEN <<Head(sorted)>> \o insert_before_equal(Tail(sorted), x)
         ELSE <<x>> \o sorted

RECURSIVE sort_loop(_, _)
sort_loop(todo, sorted) ==
    IF todo = <<>> THEN sorted
    ELSE sort_loop(Tail(todo), insert_stable(sorted, Head(todo)))

RECURSIVE sort_loop_unstable(_, _)
sort_loop_unstable(todo, sorted) ==
    IF todo = <<>> THEN sorted
    ELSE sort_loop_unstable(Tail(todo), insert_before_equal(sorted, Head(todo)))

\* a descending sort that reverses the entries of equal risk_score
sorted_by_risk_unstable(seq) == sort_loop_unstable(seq, <<>>)

\* sorted(seq, key=lambda x: x.risk_score, reverse=True): stable, so entries
\* of equal risk_score keep their order
sorted_by_risk(seq) == sort_loop(seq, <<>>)

\* the CRITICAL and HIGH analyses, sorted, [:10]
critical_files(input) ==
    LET eligible == SelectSeq(input,
                        LAMBDA a : a.criticality \in { "CRITICAL", "HIGH" })
        sorted == sorted_by_risk(eligible)
    IN  SubSeq(sorted, 1, Min(10, Len(sorted)))

\* criticality_counts, started at 0 for every level, under the report's keys
criticality_distribution(input) ==
    [critical |-> Len(SelectSeq(input, LAMBDA a : a.criticality = "CRITICAL")),
     high |-> Len(SelectSeq(input, LAMBDA a : a.criticality = "HIGH")),
     medium |-> Len(SelectSeq(input, LAMBDA a : a.criticality = "MEDIUM")),
     low |-> Len(SelectSeq(input, LAMBDA a : a.criticality = "LOW"))]

\* category_counts started at 0 for every category, as criticality_counts is
category_distribution_dense(input) ==
    [c \in { "Document", "Spreadsheet", "Source Code", "Database",
             "Configuration", "Image", "Video", "Archive", "Log", "Other" } |->
        Len(SelectSeq(input, LAMBDA a : a.category = c))]

\* category_counts: a key for each category met
category_distribution(input) ==
    [c \in { input[i].category : i \in 1..Len(input) } |->
        Len(SelectSeq(input, LAMBDA a : a.category = c))]

\* round(count / total * 100, 2), in hundredths of a percent; ties to even
percentage(count, total) ==
    LET q == (count * 10000) \div total
        rem2 == ((count * 10000) % total) * 2
        up == rem2 > total \/ (rem2 = total /\ q % 2 = 1)
    IN  q + (IF up THEN 1 ELSE 0)

generate_risk_report(input) ==
    LET total_files == Len(input)
        top == critical_files(input)
    IN  IF total_files = 0 THEN <<>>
        ELSE [total_files |-> total_files,
              criticality_distribution |-> criticality_distribution(input),
              category_distribution |-> category_distribution(input),
              risk_percentage |->
                  [critical |-> percentage(criticality_distribution(input).critical,
                                           total_files),
                   high |-> percentage(criticality_distribution(input).high,
                                       total_files)],
              top_critical_files |->
                  [i \in 1..Len(top) |->
                      [path |-> top[i].path,
                       risk_score |-> top[i].risk_score,
                       reasons |-> top[i].reasons]]]

\* the analyses a caller collects: one of each level, as analyze_file gives
\* them (the score in the level's bracket, the confidence of the level)
AnalysisKinds ==
    { [criticality |-> "CRITICAL", confidence |-> 9, risk_score |-> 100,
       category |-> "Document",
       reasons |-> <<Reason("Nome suspeito", <<"c","o","n","t","r","a","t","o","_","b","a","c","k","u","p",".","p","d","f">> (* contrato_backup.pdf *)),
                     Reason("Extensao critica", <<".","p","d","f">> (* .pdf *))>>],
      [criticality |-> "CRITICAL", confidence |-> 9, risk_score |-> 85,
       category |-> "Database",
       reasons |-> <<Reason("Extensao critica", <<".","s","q","l">> (* .sql *))>>],
      [criticality |-> "HIGH", confidence |-> 8, risk_score |-> 70,
       category |-> "Configuration",
       reasons |-> <<Reason("Extensao critica", <<".","e","n","v">> (* .env *))>>],
      [criticality |-> "MEDIUM", confidence |-> 7, risk_score |-> 45,
       category |-> "Source Code", reasons |-> <<>>],
      [criticality |-> "LOW", confidence |-> 6, risk_score |-> 20,
       category |-> "Other", reasons |-> <<>>] }

\* the kinds the entries after the leading ones are drawn from
TailKinds ==
    { k \in AnalysisKinds : k.risk_score \in { 100, 70 } }

\* the analysis of kind k for the n-th file collected
AnalysisOf(k, n) ==
    [path |-> [abs |-> FALSE, parts |-> << <<"f">> \o Decimal(n) >>],
     criticality |-> k.criticality, confidence |-> k.confidence,
     reasons |-> k.reasons, category |-> k.category,
     risk_score |-> k.risk_score]

InitReport ==
    /\ pc = "collect"
    /\ arg = <<>>
    /\ ret = <<>>
    /\ fs = NoFs /\ stack = <<>> /\ pending = <<>> /\ analyses = <<>>
    /\ log = <<>> /\ visited = <<>>

\* the caller adds one analysis to the list it will report on
Collect ==
    /\ pc = "collect"
    /\ Len(analyses) < MaxAnalyses
    /\ \E k \in (IF Len(analyses) < MaxVaried THEN AnalysisKinds ELSE TailKinds) :
           analyses' = Append(analyses, AnalysisOf(k, Len(analyses) + 1))
    /\ UNCHANGED <<pc, arg, ret, fs, stack, pending, log, visited>>

GenerateRiskReport ==
    /\ pc = "collect"
    /\ pc' = "reported"
    /\ ret' = <<generate_risk_report(analyses)>>
    /\ UNCHANGED <<arg, fs, stack, pending, analyses, log, visited>>

NextReport ==
    \/ Collect
    \/ GenerateRiskReport

SpecReport == InitReport /\ [][NextReport]_vars

----------------------------------------------------------------------------
(* Properties of generate_risk_report *)

\* the place in the input of the analysis an entry of the report is about
InputIndex(entry) == CHOOSE k \in 1..Len(analyses) : analyses[k].path = entry.path

IsEligible(a) == a.criticality \in { "CRITICAL", "HIGH" }

\* C7: top_critical_files has at most 10 entries, each from a CRITICAL or
\* HIGH analysis of the input, non-increasing by risk_score, entries of
\* equal risk_score in the order of the input, and no CRITICAL or HIGH
\* analysis left out has a risk_score above that of an included one.
C7_TopCriticalFiles ==
    (pc = "reported" /\ analyses # <<>>) =>
        LET top == ret[1].top_critical_files
        IN  /\ Len(top) <= 10
            /\ \A i \in 1..Len(top) :
                   /\ \E k \in 1..Len(analyses) : analyses[k].path = top[i].path
                   /\ IsEligible(analyses[InputIndex(top[i])])
                   /\ analyses[InputIndex(top[i])].risk_score = top[i].risk_score
                   /\ analyses[InputIndex(top[i])].reasons = top[i].reasons
            /\ \A i, j \in 1..Len(top) : i # j => top[i].path # top[j].path
            /\ \A i \in 1..(Len(top) - 1) :
                   /\ top[i].risk_score >= top[i + 1].risk_score
                   /\ top[i].risk_score = top[i + 1].risk_score
                          => InputIndex(top[i]) < InputIndex(top[i + 1])
            /\ \A k \in 1..Len(analyses) :
                   (IsEligible(analyses[k])
                    /\ \A i \in 1..Len(top) : top[i].path # analyses[k].path)
                   => \A i \in 1..Len(top) :
                          analyses[k].risk_score <= top[i].risk_score

\* more than ten CRITICAL and HIGH analyses, the last with the highest
\* score, have been cut to ten entries with ties among them
C7_Witness ==
    /\ pc = "reported"
    /\ Len(SelectSeq(analyses, IsEligible)) > 10
    /\ analyses[1].risk_score = 70
    /\ analyses[Len(analyses)].risk_score = 100
    /\ Len(ret[1].top_critical_files) = 10
    /\ ret[1].top_critical_files[1].path = analyses[Len(analyses)].path
    /\ ret[1].top_critical_files[10].risk_score = 70

RECURSIVE SumOver(_, _)
\* the sum of f over the keys in S
SumOver(f, S) ==
    IF S = {} THEN 0
    ELSE LET k == CHOOSE x \in S : TRUE
         IN  f[k] + SumOver(f, S \ {k})

\* C10: the report is the empty mapping exactly for the empty input; else
\* total_files is the length of the input, criticality_distribution has its
\* four keys and sums to total_files, and category_distribution has exactly
\* the categories met, each at least once, and sums to total_files.
C10_ReportAccountsForAll ==
    pc = "reported" =>
        /\ (DOMAIN ret[1] = {}) <=> (analyses = <<>>)
        /\ analyses # <<>> =>
               LET r == ret[1]
               IN  /\ r.total_files = Len(analyses)
                   /\ DOMAIN r.criticality_distribution
                          = { "critical", "high", "medium", "low" }
                   /\ SumOver(r.criticality_distribution,
                              DOMAIN r.criticality_distribution) = r.total_files
                   /\ DOMAIN r.category_distribution
                          = { analyses[i].category : i \in 1..Len(analyses) }
                   /\ \A c \in DOMAIN r.category_distribution :
                          r.category_distribution[c] >= 1
                   /\ SumOver(r.category_distribution,
                              DOMAIN r.category_distribution) = r.total_files

\* a report on an input with no MEDIUM and no LOW analysis, of two categories
C10_Witness ==
    /\ pc = "reported" /\ Len(analyses) >= 3
    /\ ret[1].criticality_distribution.medium = 0
    /\ ret[1].criticality_distribution.low = 0
    /\ ret[1].criticality_distribution.critical >= 1
    /\ Cardinality(DOMAIN ret[1].category_distribution) = 2

=============================================================================
